---------------------------- MODULE Spec2Model ----------------------------
(***************************************************************************)
(* Model of src/services/channelManager.js: the three module-level maps    *)
(* (channels, clientMap, ipConnections), the operations of ChannelManager  *)
(* that mutate them, and the 'close' event of the response objects.        *)
(*                                                                         *)
(* Response objects (res), channel names and IP addresses are numbered.    *)
(* A JavaScript Set is a sequence without duplicates (insertion order, as  *)
(* Set.prototype.forEach visits it); a Map is a function whose DOMAIN is   *)
(* its key set.  All methods run to completion on the event loop (they are *)
(* async functions without any await), so each is one action.              *)
(***************************************************************************)
EXTENDS Integers, Sequences, FiniteSets, TLC

\* Bounds of the model.
NumHandles == 2
NumChannels == 2
NumAddrs == 2

Handles == 1..NumHandles
Channels == 1..NumChannels
Addrs == 1..NumAddrs

VARIABLES
    channels,       \* channel -> Set of res              (line 4)
    clientMap,      \* res -> { clientId, channel, ip }   (line 5)
    ipConnections,  \* ip -> Set of { res, channel }      (line 6)
    onClose,        \* res -> channel of its 'close' listener that has yet to run (line 96)
    destroyed,      \* response objects whose .destroyed flag is true
    closed,         \* response objects whose 'close' event has been emitted
    last            \* what the last step did to the response objects

vars ==
    <<channels, clientMap, ipConnections, onClose, destroyed, closed, last>>

-----------------------------------------------------------------------------
\* Map and Set primitives of JavaScript.

Range(s) == {s[i] : i \in DOMAIN s}

\* Map.prototype.delete
MapDelete(m, k) == [x \in DOMAIN m \ {k} |-> m[x]]

\* Map.prototype.set
MapSet(m, k, v) == [x \in DOMAIN m \cup {k} |-> IF x = k THEN v ELSE m[x]]

\* Set.prototype.add: appends unless already a member
SetAdd(s, x) == IF x \in Range(s) THEN s ELSE Append(s, x)

\* Set.prototype.delete
SetDelete(s, x) == SelectSeq(s, LAMBDA y : y # x)

EmptyMap == [x \in {} |-> 0]

\* Number of occurrences of x in the sequence s
Count(s, x) == Cardinality({i \in DOMAIN s : s[i] = x})

-----------------------------------------------------------------------------
\* Messages.  A message has a type and may have a view (line 13-14); a view
\* is the list of the image URLs in it.
NoView == <<>>

Views == {<<"u1", "u2">>}

MessageTypes == {"initial_view", "view_change", "ping"}

Messages == [type : MessageTypes, view : Views \cup {NoView}]

NoMessage == [type |-> "", view |-> NoView]

ViewChange == [type |-> "view_change", view |-> <<"u1", "u2">>]

\* What the last step did to the response objects.  op: "subscribe" and
\* "send", the two methods that call into a response object, "close" for the
\* 'close' event, "none" after any other step; res: the response object
\* that was subscribed or closed; channel: the channel of the 'close'
\* listener that ran; afterDestroy: the 'close' event followed a destroy()
\* call of an eviction; targets: the members of the channel's Set when the
\* broadcast started (line 9); msg: the message argument of the broadcast; writes: the
\* res.write attempts of the broadcast, in order; payloads: the string
\* passed to each of these attempts; failed: the attempts that threw; prior:
\* the response objects that had a clientMap record with the address of the
\* subscribe when it started; destroyCalls: the response objects on which
\* res.destroy() was called; threw: those whose destroy() threw; raised: an
\* error left the method.

NoCall ==
    [op |-> "none", res |-> 0, channel |-> 0, afterDestroy |-> FALSE,
     targets |-> {}, msg |-> NoMessage, writes |-> <<>>, payloads |-> <<>>,
     failed |-> {}, prior |-> {}, destroyCalls |-> {}, threw |-> {},
     raised |-> FALSE]

Init ==
    /\ channels = EmptyMap
    /\ clientMap = EmptyMap
    /\ ipConnections = EmptyMap
    /\ onClose = EmptyMap
    /\ destroyed = {}
    /\ closed = {}
    /\ last = NoCall

-----------------------------------------------------------------------------
\* broadcastToChannel (lines 8-46).  st = [channels, clientMap, writes,
\* payloads, data, escaped] is the state of the two maps, the write attempts
\* made so far with their arguments, the string to write and the errors
\* that left the forEach callback.

\* rewriteImageUrls of ../utils/imageProxy.js (line 2): every URL of the
\* view is replaced by its proxied form.
rewriteImageUrls(view) == [i \in DOMAIN view |-> <<"proxy", view[i]>>]

\* Lines 12-20: the message that is sent, when every type is rewritten
ProcessEveryType(message) ==
    IF message.view # NoView
    THEN [message EXCEPT !.view = rewriteImageUrls(message.view)]
    ELSE message

\* Lines 12-20: the message that is sent
ProcessMessage(message) ==
    IF message.type = "initial_view" \/ message.type = "view_change"
    THEN IF message.view # NoView
         THEN [message EXCEPT !.view = rewriteImageUrls(message.view)]
         ELSE message
    ELSE message

\* Line 25: `data: ${JSON.stringify(processedMessage)}\n\n`
Serialize(processedMessage) == <<"data: ", processedMessage, "\n\n">>

\* Lines 23 and 32: an error thrown by the write is caught by the catch of
\* the callback and does not leave it.
WriteErrorEscapes(threw) == FALSE

\* The callback with a catch block that empties clientMap (clientMap.clear()
\* for line 42).
WriteCallbackClearsAll(st, channel, res, fails) ==
    LET attempted == [st EXCEPT !.writes = Append(st.writes, res),
                                !.payloads = Append(st.payloads, st.data)]
    IN  IF res \in fails
        THEN [attempted EXCEPT
                !.channels = IF channel \in DOMAIN st.channels
                             THEN MapSet(st.channels, channel,
                                         SetDelete(st.channels[channel], res))
                             ELSE st.channels,
                !.clientMap = EmptyMap]
        ELSE attempted

\* One call of the forEach callback (lines 22-44) on res: the write of line
\* 25 is attempted (messages are JSON values, so JSON.stringify succeeds and
\* res.write is reached); when it throws, the catch block deletes res from
\* the channel's Set and from clientMap (lines 41-42) and from nothing else.
WriteCallback(st, channel, res, fails) ==
    LET attempted == [st EXCEPT !.writes = Append(st.writes, res),
                                !.payloads = Append(st.payloads, st.data),
                                !.escaped = st.escaped
                                            \/ WriteErrorEscapes(res \in fails)]
    IN  IF res \in fails
        THEN [attempted EXCEPT
                !.channels = IF channel \in DOMAIN st.channels
                             THEN MapSet(st.channels, channel,
                                         SetDelete(st.channels[channel], res))
                             ELSE st.channels,
                !.clientMap = MapDelete(st.clientMap, res)]
        ELSE attempted

\* clients.forEach (line 22): Set.prototype.forEach walks the entry list of
\* the Set in insertion order; an entry deleted before it is reached is
\* not visited, and deleting the entry being visited does not move the others.
\* entries is the entry list at the start of the call, i the position.
RECURSIVE ForEachLive(_, _, _, _, _)
ForEachLive(entries, i, st, channel, fails) ==
    LET live == st.channels[channel]
    IN  IF i > Len(live)
        THEN st
        ELSE ForEachLive(entries, i + 1,
                         WriteCallback(st, channel, live[i], fails),
                         channel, fails)

RECURSIVE ForEach(_, _, _, _, _)
ForEach(entries, i, st, channel, fails) ==
    IF i > Len(entries)
    THEN st
    ELSE IF entries[i] \in Range(st.channels[channel])
         THEN ForEach(entries, i + 1,
                      WriteCallback(st, channel, entries[i], fails),
                      channel, fails)
         ELSE ForEach(entries, i + 1, st, channel, fails)

broadcastToChannel(channel, message, fails) ==
    LET st0 == [channels |-> channels, clientMap |-> clientMap,
                writes |-> <<>>, payloads |-> <<>>,
                data |-> Serialize(ProcessMessage(message)),
                escaped |-> FALSE]
    IN  IF channel \in DOMAIN channels
        THEN ForEach(channels[channel], 1, st0, channel, fails)
        ELSE st0

\* sendToChannel (lines 140-143).  fails: the subscribers whose res.write
\* throws during this call.
sendToChannel(channel, message, fails) ==
    LET st == broadcastToChannel(channel, message, fails)
    IN  /\ channels' = st.channels
        /\ clientMap' = st.clientMap
        /\ last' = [NoCall EXCEPT !.op = "send", !.writes = st.writes,
                                  !.msg = message,
                                  !.payloads = st.payloads,
                                  !.raised = st.escaped,
                                  !.targets = IF channel \in DOMAIN channels
                                              THEN Range(channels[channel])
                                              ELSE {},
                                  !.failed = fails \cap Range(st.writes)]
        /\ UNCHANGED <<ipConnections, onClose, destroyed, closed>>

-----------------------------------------------------------------------------
\* subscribeClient (lines 49-99).

\* The Set of { res, channel } records of ip (lines 51-52), empty when
\* ipConnections has no entry for ip.
ExistingConnections(ipc, ip) == IF ip \in DOMAIN ipc THEN ipc[ip] ELSE {}

\* Lines 61-63: destroy() is called on the records' response objects that
\* are not yet destroyed.
DestroyCalls(existing, destr) == {r.res : r \in existing} \ destr

\* Lines 60-66: an error thrown by destroy() is caught by the catch of line
\* 64 and does not leave the method.
DestroyErrorEscapes(threw) == FALSE

\* Lines 59-73: the records of the loop that reach the removal of lines
\* 67-72, which follows the try statement: all of them, also those whose
\* destroy() threw.
RemovedUnlessThrown(existing, throws) == {r \in existing : r.res \notin throws}

RemovedRecords(existing, throws) == existing

\* Lines 68-71, for every record of the loop: the record's res is deleted
\* from the Set of the record's channel, when channels has that entry; the
\* entry itself stays.
EvictFromChannelsNoop(chs, existing) == chs

EvictFromChannels(chs, existing) ==
    [c \in DOMAIN chs |->
        SelectSeq(chs[c], LAMBDA h : [res |-> h, channel |-> c] \notin existing)]

\* Line 72, for every record of the loop.
EvictFromClientMapNoop(cm, existing) == cm

EvictFromClientMap(cm, existing) ==
    [h \in DOMAIN cm \ {r.res : r \in existing} |-> cm[h]]

\* Lines 77-81
AddToChannel(chs, channel, res) ==
    LET created == IF channel \in DOMAIN chs THEN chs
                   ELSE MapSet(chs, channel, <<>>)
    IN  MapSet(created, channel, SetAdd(created[channel], res))

\* Lines 85-88
TrackByIp(ipc, ip, res, channel) ==
    LET created == IF ip \in DOMAIN ipc THEN ipc ELSE MapSet(ipc, ip, {})
    IN  MapSet(created, ip, created[ip] \cup {[res |-> res, channel |-> channel]})

\* throws: the response objects whose destroy() throws (caught, line 64);
\* torn: those of them that had set their .destroyed flag before they threw,
\* so that their 'close' event is due all the same.
subscribeClient(channel, res, clientId, ip, throws, torn) ==
    LET existing == ExistingConnections(ipConnections, ip)
        calls == DestroyCalls(existing, destroyed)
        removed == RemovedRecords(existing, throws)
        ipc1 == MapDelete(ipConnections, ip)
    IN  /\ throws \subseteq calls
        /\ torn \subseteq throws
        /\ channels' = AddToChannel(EvictFromChannels(channels, removed),
                                    channel, res)
        /\ clientMap' = MapSet(EvictFromClientMap(clientMap, removed), res,
                               [clientId |-> clientId, channel |-> channel,
                                ip |-> ip])
        /\ ipConnections' = TrackByIp(ipc1, ip, res, channel)
        /\ destroyed' = destroyed \cup (calls \ throws) \cup torn
        /\ onClose' = MapSet(onClose, res, channel)
        /\ last' = [NoCall EXCEPT !.op = "subscribe", !.res = res,
                                  !.destroyCalls = calls,
                                  !.threw = throws,
                                  !.raised = DestroyErrorEscapes(throws),
                                  !.prior = {h \in DOMAIN clientMap :
                                                clientMap[h].ip = ip}]
        /\ UNCHANGED closed

-----------------------------------------------------------------------------
\* unsubscribeClient (lines 101-138).  idx = [channels, clientMap,
\* ipConnections]; the result is the three maps after the call.

\* Lines 109-122: the first record of res is deleted from the Set of the
\* address of its clientMap record, and the entry with it when the Set
\* becomes empty.  Addresses are non-empty strings, so clientInfo.ip is truthy.
RemoveFromIpTrackingKeepEmpty(ipc, cm, res) ==
    IF res \in DOMAIN cm /\ cm[res].ip \in DOMAIN ipc
    THEN MapSet(ipc, cm[res].ip, {r \in ipc[cm[res].ip] : r.res # res})
    ELSE ipc

RemoveFromIpTracking(ipc, cm, res) ==
    IF res \in DOMAIN cm /\ cm[res].ip \in DOMAIN ipc
    THEN LET ip == cm[res].ip
             matching == {r \in ipc[ip] : r.res = res}
             ipConns == IF matching = {} THEN ipc[ip]
                        ELSE ipc[ip] \ {CHOOSE r \in matching : TRUE}
         IN  IF ipConns = {} THEN MapDelete(ipc, ip)
             ELSE MapSet(ipc, ip, ipConns)
    ELSE ipc

unsubscribeClientKeepEmpty(idx, channel, res) ==
    IF channel \in DOMAIN idx.channels
    THEN [channels |-> MapSet(idx.channels, channel,
                              SetDelete(idx.channels[channel], res)),
          clientMap |-> MapDelete(idx.clientMap, res),
          ipConnections |->
              RemoveFromIpTracking(idx.ipConnections, idx.clientMap, res)]
    ELSE idx

unsubscribeClientMaps(idx, channel, res) ==
    IF channel \in DOMAIN idx.channels
    THEN LET clients == SetDelete(idx.channels[channel], res)
         IN  [channels |-> IF clients = <<>>
                           THEN MapDelete(idx.channels, channel)
                           ELSE MapSet(idx.channels, channel, clients),
              clientMap |-> MapDelete(idx.clientMap, res),
              ipConnections |->
                  RemoveFromIpTracking(idx.ipConnections, idx.clientMap, res)]
    ELSE idx

Indexes ==
    [channels |-> channels, clientMap |-> clientMap,
     ipConnections |-> ipConnections]

\* A call of the exported method with any arguments.
unsubscribeClient(channel, res) ==
    LET idx == unsubscribeClientMaps(Indexes, channel, res)
    IN  /\ channels' = idx.channels
        /\ clientMap' = idx.clientMap
        /\ ipConnections' = idx.ipConnections
        /\ last' = NoCall
        /\ UNCHANGED <<onClose, destroyed, closed>>

-----------------------------------------------------------------------------
\* The read-only projections (lines 145-233).

\* `let timestamp = null` (lines 152, 205)
NoTimestamp == 0

\* No channel argument: `channel = null` (line 145)
NoChannel == 0

\* Lines 151-161 and 204-213: the clientId is split at '-', and its last
\* part is the timestamp when it parses to a number above 0.  A clientId is
\* the sequence of its parts.
ParseTimestamp(clientId) ==
    IF Len(clientId) > 0 /\ clientId[Len(clientId)] > 0
    THEN clientId[Len(clientId)]
    ELSE NoTimestamp

\* Lines 163 and 169: the ISO string of the timestamp, or null (<<>>).
ConnectedAt(timestamp) ==
    IF timestamp # NoTimestamp THEN <<"iso", timestamp>> ELSE <<>>

\* extractClientInfo (lines 148-172)
extractClientInfo(clientInfo) ==
    [clientId |-> clientInfo.clientId,
     channel |-> clientInfo.channel,
     ip |-> clientInfo.ip,
     connectedAt |-> ConnectedAt(ParseTimestamp(clientInfo.clientId)),
     connectedAtTimestamp |-> ParseTimestamp(clientInfo.clientId)]

\* The view that getChannelStats pushes (lines 217-222)
StatsView(clientInfo) ==
    [clientId |-> clientInfo.clientId,
     ip |-> clientInfo.ip,
     connectedAt |-> ConnectedAt(ParseTimestamp(clientInfo.clientId)),
     connectedAtTimestamp |-> ParseTimestamp(clientInfo.clientId)]

\* The members of a channel Set that have a clientMap record, in the order
\* of the Set (the `if (clientInfo)` of lines 180 and 202).
WithRecord(set) == SelectSeq(set, LAMBDA h : h \in DOMAIN clientMap)

\* The keys of clientMap as clientMap.forEach visits them (line 187): in
\* the order of their insertion, which is the order of their numbers.
ClientMapKeys ==
    CHOOSE q \in [1..Cardinality(DOMAIN clientMap) -> DOMAIN clientMap] :
        /\ Range(q) = DOMAIN clientMap
        /\ \A i, j \in DOMAIN q : i < j => q[i] < q[j]

\* getConnectedClients (lines 145-193) when it ignores its argument
getConnectedClientsAll(channel) ==
    [i \in DOMAIN ClientMapKeys |-> extractClientInfo(clientMap[ClientMapKeys[i]])]

\* getConnectedClients (lines 145-193)
getConnectedClients(channel) ==
    IF channel # NoChannel
    THEN IF channel \in DOMAIN channels
         THEN LET found == WithRecord(channels[channel])
              IN  [i \in DOMAIN found |-> extractClientInfo(clientMap[found[i]])]
         ELSE <<>>
    ELSE [i \in DOMAIN ClientMapKeys |->
             extractClientInfo(clientMap[ClientMapKeys[i]])]

\* getChannelStats (lines 195-233)
getChannelStats ==
    [c \in DOMAIN channels |->
        LET found == WithRecord(channels[c])
        IN  [clientCount |-> Len(channels[c]),
             clients |-> [i \in DOMAIN found |-> StatsView(clientMap[found[i]])]]]

-----------------------------------------------------------------------------
\* The transport.

\* A listener that deletes the whole entry of its channel.
CloseListenerWholeChannel(res) ==
    /\ channels' = MapDelete(channels, onClose[res])
    /\ clientMap' = MapDelete(clientMap, res)
    /\ ipConnections' = RemoveFromIpTracking(ipConnections, clientMap, res)
    /\ closed' = closed \cup {res}
    /\ onClose' = MapDelete(onClose, res)

\* The 'close' event of res is emitted: the listener of lines 96-98 runs
\* unsubscribeClient(channel, res) with the channel of the subscribeClient
\* call.  The event is emitted once, so the listener cannot run again.
CloseListener(res) ==
    /\ LET idx == unsubscribeClientMaps(Indexes, onClose[res], res)
       IN  /\ channels' = idx.channels
           /\ clientMap' = idx.clientMap
           /\ ipConnections' = idx.ipConnections
    /\ closed' = closed \cup {res}
    /\ onClose' = MapDelete(onClose, res)

\* The peer drops the connection of a subscribed response object: the
\* transport marks the object destroyed and emits its 'close' event in the
\* same turn of the event loop, before any other call of the manager.
ClientDisconnect(res) ==
    /\ res \in DOMAIN onClose
    /\ res \notin destroyed
    /\ destroyed' = destroyed \cup {res}
    /\ CloseListener(res)
    /\ last' = [NoCall EXCEPT !.op = "close", !.res = res,
                              !.channel = onClose[res]]

\* The 'close' event of a response object on which destroy() was called
\* (line 62) is emitted in a later turn of the event loop.
CloseNotification(res) ==
    /\ res \in destroyed \ closed
    /\ res \in DOMAIN onClose
    /\ CloseListener(res)
    /\ last' = [NoCall EXCEPT !.op = "close", !.res = res,
                              !.channel = onClose[res],
                              !.afterDestroy = TRUE]
    /\ UNCHANGED destroyed

-----------------------------------------------------------------------------
\* The clientId of a request is `${req.ip}-${Date.now()}` (lines 149-150);
\* the number of the response object stands for the time of the request.
ClientId(ip, res) == <<ip, res>>

\* The response objects that no subscribeClient call has received yet.
Unseen == Handles \ (DOMAIN onClose \cup closed)

\* subscribeClient is called with a response object that the manager has
\* not seen before (sse.js gives every request its own res); the response
\* objects are numbered in the order of their requests.
Subscribe ==
    \E channel \in Channels, res \in Unseen,
       ip \in Addrs, throws \in SUBSET Handles :
        \E torn \in SUBSET throws :
            /\ \A other \in Unseen : res <= other
            /\ subscribeClient(channel, res, ClientId(ip, res), ip, throws, torn)

Unsubscribe ==
    \E channel \in Channels, res \in Handles : unsubscribeClient(channel, res)

\* The operations on the three maps do not read the message: here every
\* broadcast carries the same view change.
Send ==
    \E channel \in Channels :
        \E fails \in SUBSET (IF channel \in DOMAIN channels
                             THEN Range(channels[channel]) ELSE {}) :
            sendToChannel(channel, ViewChange, fails)

\* A broadcast of any message.
SendMessage ==
    \E channel \in Channels, message \in Messages :
        \E fails \in SUBSET (IF channel \in DOMAIN channels
                             THEN Range(channels[channel]) ELSE {}) :
            sendToChannel(channel, message, fails)

Disconnect == \E res \in Handles : ClientDisconnect(res)

Close == \E res \in Handles : CloseNotification(res)

Next == Subscribe \/ Unsubscribe \/ Send \/ Disconnect \/ Close

Spec == Init /\ [][Next]_vars

\* The processing of a message (lines 12-20) reads the message alone, and
\* the writes of a broadcast depend on the subscriptions: this specification
\* has the broadcasts of every message to every set of subscribers.
NextMsg == Subscribe \/ SendMessage

MsgSpec == Init /\ [][NextMsg]_vars

-----------------------------------------------------------------------------
\* Vocabulary of the properties.

\* The subscriber Set of a channel, empty when channels has no entry.
Members(c) == IF c \in DOMAIN channels THEN Range(channels[c]) ELSE {}

\* The pairs <<address, record>> of ipConnections that refer to res.
BindingsOf(res) ==
    {p \in UNION {{<<a, r>> : r \in ipConnections[a]} : a \in DOMAIN ipConnections} :
        p[2].res = res}

\* res is in no channel Set, has no metadata record and no binding record.
Retired(res) ==
    /\ \A c \in DOMAIN channels : res \notin Range(channels[c])
    /\ res \notin DOMAIN clientMap
    /\ BindingsOf(res) = {}

indexes == <<channels, clientMap, ipConnections>>

\* The close notification of res is processed in this step.
CloseProcessed(res) == ClientDisconnect(res) \/ CloseNotification(res)

-----------------------------------------------------------------------------
\* C1: a channel name is a key of the channel index if and only if its
\* subscriber set is non-empty: no entry with an empty set is ever left behind.
C1_ChannelIffNonEmpty ==
    \A c \in Channels : c \in DOMAIN channels <=> Members(c) # {}

\* C2: every record of the address binding of address a refers to an active
\* subscriber whose metadata address is a and who is a member of the channel
\* set the record names.
C2_BindingRecordsAreActive ==
    \A a \in DOMAIN ipConnections :
        \A r \in ipConnections[a] :
            /\ r.res \in DOMAIN clientMap
            /\ clientMap[r.res].ip = a
            /\ r.res \in Members(r.channel)

\* C3: every active subscriber has exactly one record in the address
\* binding, and that record is in the set of the subscriber's own address.
C3_ActiveHasOneBinding ==
    \A h \in DOMAIN clientMap :
        /\ Cardinality(BindingsOf(h)) = 1
        /\ \A p \in BindingsOf(h) : p[1] = clientMap[h].ip

\* An active subscriber is bound to its address while the record of a
\* subscriber that a failed write removed is still in the binding.
C3_Witness ==
    /\ last.op = "send"
    /\ last.failed # {}
    /\ \E h \in DOMAIN clientMap : BindingsOf(h) # {}
    /\ \E g \in last.failed : BindingsOf(g) # {}

\* C4: a response object is a member of channel c's set if and only if it
\* has a metadata record whose channel is c.
C4_MemberIffRecord ==
    \A c \in Channels, h \in Handles :
        h \in Members(c) <=> (h \in DOMAIN clientMap /\ clientMap[h].channel = c)

\* C5: a subscribeClient call from address a made while other connections
\* from a are active leaves the new connection as the only active subscriber
\* of a; every older one has received destroy(), unless it was destroyed
\* already, and is in no channel set, not in the metadata map and not in the
\* address binding.
C5_EvictionLeavesOne ==
    (last.op = "subscribe" /\ last.prior # {}) =>
        LET a == clientMap[last.res].ip
        IN  /\ {h \in DOMAIN clientMap : clientMap[h].ip = a} = {last.res}
            /\ \A old \in last.prior :
                  /\ old \in last.destroyCalls \/ old \in destroyed
                  /\ Retired(old)

\* A subscribe has evicted an active subscriber and called destroy() on it.
C5_Witness ==
    /\ last.op = "subscribe"
    /\ last.prior # {}
    /\ last.prior \subseteq last.destroyCalls
    /\ \A old \in last.prior : Retired(old)

\* C6: when a broadcast has a failing write on S1 and a successful write on
\* S2 of the same channel, S2 has received the message and S1 is removed from
\* the channel set, the metadata map and the address binding, the channel
\* entry being deleted when it became empty.
C6_FailedWriteRemovesFromAll ==
    [][\A c \in Channels :
         \A fails \in SUBSET Members(c) :
            sendToChannel(c, last'.msg, fails) =>
               \A s1 \in fails, s2 \in Members(c) \ fails :
                  /\ Count(last'.writes, s2) = 1
                  /\ Retired(s1)'
                  /\ c \in DOMAIN channels' => channels'[c] # <<>>]_vars

\* C7: a broadcast on channel c attempts exactly one write on every
\* response object that is in c's set at the start of the call and none on
\* any other, whichever writes fail.
C7_OneAttemptEach ==
    last.op = "send" =>
        \A h \in Handles :
            Count(last.writes, h) = IF h \in last.targets THEN 1 ELSE 0

\* The first write of a broadcast failed and a later subscriber was still written.
C7_Witness ==
    /\ last.op = "send"
    /\ Len(last.writes) >= 2
    /\ last.writes[1] \in last.failed
    /\ last.writes[Len(last.writes)] \notin last.failed

\* C8: unsubscribeClient on a connection without an active subscriber
\* record changes none of the three indexes.
C8_UnsubscribeAbsentIsNoop ==
    [][\A c \in Channels, r \in Handles :
         (r \notin DOMAIN clientMap /\ unsubscribeClient(c, r)) =>
             UNCHANGED indexes]_vars

\* C9: whichever of the close notification, a failed write and an eviction
\* reaches an active subscriber first removes it from all three indexes, and
\* a close notification that comes after another trigger changes no index.
C9_FirstTriggerRetires ==
    [][\A h \in Handles :
         /\ (/\ h \in DOMAIN clientMap
             /\ \/ CloseProcessed(h)
                \/ last'.op = "send" /\ h \in last'.failed
                \/ last'.op = "subscribe" /\ h \in last'.prior)
            => Retired(h)'
         /\ (h \notin DOMAIN clientMap /\ CloseProcessed(h))
            => UNCHANGED indexes]_vars

\* C10: unsubscribeClient(channel, res) on a connection with an active
\* subscriber record removes it, for any channel argument, from its channel
\* set, the address binding and the metadata map, and deletes its channel
\* entry when that set became empty.
C10_UnsubscribeByHandle ==
    [][\A c \in Channels, r \in Handles :
         (r \in DOMAIN clientMap /\ unsubscribeClient(c, r)) =>
             /\ Retired(r)'
             /\ LET own == clientMap[r].channel
                IN  own \in DOMAIN channels' => channels'[own] # <<>>]_vars

\* C11: when unsubscribeClient(X, r), called directly or by r's close
\* listener, removes the only member r of channel X, X is no key of
\* getChannelStats(); and a subscribeClient on a channel X that has no entry
\* makes getChannelStats() report X with client count 1 and one view.
C11_StatsFollowLastUnsubscribe ==
    [][/\ \A c \in Channels, r \in Handles :
            (/\ Members(c) = {r}
             /\ \/ unsubscribeClient(c, r)
                \/ CloseProcessed(r) /\ onClose[r] = c)
            => c \notin DOMAIN getChannelStats'
       /\ last'.op = "subscribe" =>
            LET x == clientMap'[last'.res].channel
            IN  x \notin DOMAIN channels =>
                  /\ x \in DOMAIN getChannelStats'
                  /\ getChannelStats'[x].clientCount = 1
                  /\ Len(getChannelStats'[x].clients) = 1]_vars

\* A channel whose only subscriber closed has been re-created by a subscribe
\* and is reported with one client.
C11_Witness ==
    /\ last.op = "subscribe"
    /\ closed # {}
    /\ DOMAIN clientMap = {last.res}
    /\ DOMAIN getChannelStats = {clientMap[last.res].channel}
    /\ getChannelStats[clientMap[last.res].channel].clientCount = 1

\* C12: getConnectedClients(c) lists, once each, the views of the active
\* subscribers whose channel is c and nothing else, and getConnectedClients()
\* lists, once each, the views that the calls for the channels of the index list.
C12_ListsMatchChannels ==
    LET of(c) == {h \in DOMAIN clientMap : clientMap[h].channel = c}
        all == getConnectedClients(NoChannel)
    IN  /\ \A c \in Channels :
              /\ Range(getConnectedClients(c))
                   = {extractClientInfo(clientMap[h]) : h \in of(c)}
              /\ Len(getConnectedClients(c)) = Cardinality(of(c))
        /\ Range(all) = UNION {Range(getConnectedClients(c)) : c \in DOMAIN channels}
        /\ Len(all) = Cardinality(Range(all))

\* Two channels have a subscriber each and both lists are non-empty.
C12_Witness ==
    /\ \A c \in Channels : Len(getConnectedClients(c)) = 1
    /\ Len(getConnectedClients(NoChannel)) = NumChannels

\* C13: a connection whose close notification has been processed is in no
\* channel set, has no metadata record and no address-binding record.
C13_ClosedIsRetired ==
    \A h \in closed : Retired(h)

C15_TransformedOrVerbatim ==
    last.op = "send" =>
        LET m == last.msg
            delivered ==
                IF m.type \in {"initial_view", "view_change"} /\ m.view # NoView
                THEN [type |-> m.type, view |-> rewriteImageUrls(m.view)]
                ELSE m
        IN  /\ Range(last.writes) = last.targets
            /\ Len(last.payloads) = Len(last.writes)
            /\ \A i \in DOMAIN last.payloads :
                  last.payloads[i] = <<"data: ", delivered, "\n\n">>

\* Two subscribers have received the transformed copy of an initial view.
C15_Witness ==
    /\ last.op = "send"
    /\ last.msg.type = "initial_view"
    /\ last.msg.view # NoView
    /\ Len(last.payloads) = 2
    /\ last.payloads[1][2].view # last.msg.view
    /\ last.payloads[2] = last.payloads[1]

\* C16: every address-binding entry holds exactly one record, never none
\* and never several, and after a subscribeClient call the entry of the
\* call's address holds the record of the new subscription.
C16_OneRecordPerAddress ==
    /\ \A a \in DOMAIN ipConnections : Cardinality(ipConnections[a]) = 1
    /\ last.op = "subscribe" =>
          LET info == clientMap[last.res]
          IN  /\ info.ip \in DOMAIN ipConnections
              /\ ipConnections[info.ip]
                    = {[res |-> last.res, channel |-> info.channel]}

\* A subscribe has replaced the binding record of an older subscriber of
\* its address by the record of the new one.
C16_Witness ==
    /\ last.op = "subscribe"
    /\ last.prior # {}
    /\ \A r \in ipConnections[clientMap[last.res].ip] : r.res = last.res

\* C17: the close notification of a connection that a newer subscribe
\* evicted, which has no metadata record any more, leaves every active
\* subscriber as it was: its metadata record, its
\* membership of its channel set and its address-binding record stay, also
\* when it subscribed to the channel of the evicted connection.
C17_LateCloseSparesReplacement ==
    [][\A h \in Handles :
         (h \notin DOMAIN clientMap /\ CloseProcessed(h)) =>
            \A n \in DOMAIN clientMap :
               /\ n \in DOMAIN clientMap'
               /\ clientMap'[n] = clientMap[n]
               /\ \A c \in Channels : n \in Members(c) => n \in Members(c)'
               /\ BindingsOf(n)' = BindingsOf(n)]_vars

\* The close notification of an evicted connection has been processed while
\* a subscriber of its channel is active.
C17_Witness ==
    /\ last.op = "close"
    /\ last.afterDestroy
    /\ \E n \in DOMAIN clientMap :
          /\ clientMap[n].channel = last.channel
          /\ n \in Members(last.channel)
          /\ BindingsOf(n) # {}

\* C18: for every channel of getChannelStats() the clientCount equals the
\* number of views in the clients list.
C18_CountMatchesList ==
    \A c \in DOMAIN getChannelStats :
        getChannelStats[c].clientCount = Len(getChannelStats[c].clients)

\* C19: sendToChannel(c, m) attempts a write on subscribers of c only and
\* changes no entry of another channel and no metadata record or binding
\* record of a connection that is not a subscriber of c; when c has no
\* subscribers it writes nothing and changes no index, and when every write
\* succeeds it changes no index.
C19_SendFrame ==
    [][\A c \in Channels :
         \A fails \in SUBSET Members(c) :
            sendToChannel(c, last'.msg, fails) =>
               /\ Range(last'.writes) \subseteq Members(c)
               /\ \A d \in Channels \ {c} :
                     /\ d \in DOMAIN channels' <=> d \in DOMAIN channels
                     /\ d \in DOMAIN channels => channels'[d] = channels[d]
               /\ \A h \in Handles \ Members(c) :
                     /\ h \in DOMAIN clientMap' <=> h \in DOMAIN clientMap
                     /\ h \in DOMAIN clientMap => clientMap'[h] = clientMap[h]
                     /\ BindingsOf(h)' = BindingsOf(h)
               /\ Members(c) = {} =>
                     last'.writes = <<>> /\ UNCHANGED indexes
               /\ fails = {} => UNCHANGED indexes]_vars

\* A write of a broadcast has failed while another channel had an active
\* subscriber, which is still there.
C19_Witness ==
    /\ last.op = "send"
    /\ last.failed # {}
    /\ \E h \in DOMAIN clientMap :
          /\ h \notin last.targets
          /\ h \in Members(clientMap[h].channel)

\* C20: once no close notification is pending, the channel index contains
\* no channel with an empty subscriber set.
C20_NoPendingNoEmptyChannel ==
    (destroyed \ closed = {}) =>
        \A c \in DOMAIN channels : channels[c] # <<>>

=============================================================================
